---- MODULE Spec2Model ----
(***************************************************************************)
(* Model of the ChatBox component (frontend/src/components/ChatBox.jsx):   *)
(* the React state of the component, its event handlers, and the           *)
(* continuations of its two axios calls.  Every handler runs against the   *)
(* values of the render it was created in: a value read after an await is  *)
(* the value captured when the handler was called, and a setState with a   *)
(* plain value overwrites the state while a functional setState reads the  *)
(* state at the moment it is applied.                                      *)
(***************************************************************************)
EXTENDS Integers, Sequences, FiniteSets

\* ---------------------------------------------------------------- bounds
\* Number of results the recogniser delivers in one capture.
MaxHeard == 1
\* Number of dialogue requests (start_chat and chat) issued in one run.
MaxReq == 3

\* ----------------------------------------------------------------- texts
\* A JS string is a sequence of characters.
Whitespace == {" "}

\* What the user types into the input field: nothing, whitespace only, and
\* a text with whitespace around it.
TypedTexts == {<<>>, <<" ">>, <<" ", "a">>}

\* What the recogniser hears in one result.
Heard == "b"

\* What the dialogue service may answer (response.data.reply).
Replies == {<<"r">>}

RECURSIVE TrimStart(_)
TrimStart(s) ==
  IF s = <<>> THEN <<>>
  ELSE IF Head(s) \in Whitespace THEN TrimStart(Tail(s)) ELSE s

RECURSIVE TrimEnd(_)
TrimEnd(s) ==
  IF s = <<>> THEN <<>>
  ELSE IF s[Len(s)] \in Whitespace THEN TrimEnd(SubSeq(s, 1, Len(s) - 1)) ELSE s

\* String.prototype.trim
Trim(s) == TrimEnd(TrimStart(s))

\* JS truthiness of a string: the empty string is falsy.
Truthy(s) == s # <<>>

\* The guard without the trim: if (input)
AcceptsUntrimmed(inp) == Truthy(inp)

\* The guard of handleSend: if (input.trim())
Accepts(inp) == Truthy(Trim(inp))

\* ----------------------------------------------------------------- state
VARIABLES
  supported,       \* SpeechRecognition.browserSupportsSpeechRecognition()
  input,           \* useState('')  : the input field
  messages,        \* useState([])  : the transcript
  isVoiceEnabled,  \* useState(false)
  isListening,     \* useState(false)
  transcript,      \* useSpeechRecognition().transcript
  capturing,       \* the recogniser of react-speech-recognition is running
  reqs,            \* every axios call issued so far, in issue order
  spoken,          \* the texts handed to window.speechSynthesis.speak
  micOpen,         \* SpeechRecognition.startListening calls made, minus the
                   \* SpeechRecognition.stopListening calls made
  last             \* the handler or continuation that ran last

vars == <<supported, input, messages, isVoiceEnabled, isListening,
          transcript, capturing, reqs, spoken, micOpen, last>>

\* A message object {text, sender}; req is the identity of the object: the
\* request it was created for.
Message(t, s, r) == [text |-> t, sender |-> s, req |-> r]

\* An axios call: who issued it, the isVoiceEnabled its closure captured,
\* the body it posts, and whether its promise is settled.
Request(by, voice, msg) ==
  [by |-> by, voice |-> voice, message |-> msg, status |-> "pending"]

IsStart(r) == r.by \in {"useEffect", "handleRefresh"}

IsChat(r) == r.by = "handleSend"

Pending == {i \in 1..Len(reqs) : reqs[i].status = "pending"}

Event(op, r) == [op |-> op, req |-> r]

\* The component is mounted: the effect has run once and its start_chat call
\* is in flight.
Init ==
  /\ supported \in BOOLEAN
  /\ input = <<>>
  /\ messages = <<>>
  /\ isVoiceEnabled = FALSE
  /\ isListening = FALSE
  /\ transcript = <<>>
  /\ capturing = FALSE
  /\ reqs = <<Request("useEffect", FALSE, <<>>)>>
  /\ spoken = <<>>
  /\ micOpen = 0
  /\ last = Event("mount", 1)

\* ------------------------------------------------------------ operations
\* fetchInitialMessage up to its await: axios.get(.../start_chat)
FetchInitialMessage(by, voice) ==
  reqs' = Append(reqs, Request(by, voice, <<>>))

\* speak(text)
Speak(text) == spoken' = Append(spoken, text)

\* A handleSend that posts the trimmed input.
HandleSendBodyTrimmed(inp, other) ==
  IF Accepts(inp)
  THEN /\ Len(reqs) < MaxReq
       /\ messages' = Append(messages, Message(inp, "user", Len(reqs) + 1))
       /\ input' = <<>>
       /\ reqs' = Append(reqs, Request("handleSend", isVoiceEnabled, Trim(inp)))
  ELSE /\ input' = other
       /\ UNCHANGED <<messages, reqs>>

\* handleSend up to its await, run in a render whose input is inp.
\* other is the value another setInput of the same handler leaves in the
\* field when this one does not run.
HandleSendBody(inp, other) ==
  IF Accepts(inp)
  THEN /\ Len(reqs) < MaxReq
       /\ messages' = Append(messages, Message(inp, "user", Len(reqs) + 1))
       /\ input' = <<>>
       /\ reqs' = Append(reqs, Request("handleSend", isVoiceEnabled, inp))
  ELSE /\ input' = other
       /\ UNCHANGED <<messages, reqs>>

\* onChange of the input field
TypeInput(t) ==
  /\ supported
  /\ t # input
  /\ input' = t
  /\ last' = Event("onChange", 0)
  /\ UNCHANGED <<supported, micOpen, messages, isVoiceEnabled, isListening,
                 transcript, capturing, reqs, spoken>>

\* onSubmit of the form
HandleSend ==
  /\ supported
  /\ HandleSendBody(input, input)
  /\ last' = Event("handleSend", IF Accepts(input) THEN Len(reqs) + 1 ELSE 0)
  /\ UNCHANGED <<supported, micOpen, isVoiceEnabled, isListening, transcript,
                 capturing, spoken>>

\* A continuation that tests the isVoiceEnabled of the moment the reply
\* arrives.
SendOkCurrentVoice(i, reply) ==
  /\ i \in Pending
  /\ IsChat(reqs[i])
  /\ messages' = Append(messages, Message(reply, "bot", i))
  /\ IF isVoiceEnabled THEN Speak(reply) ELSE UNCHANGED spoken
  /\ reqs' = [reqs EXCEPT ![i].status = "ok"]
  /\ last' = Event("sendOk", i)
  /\ UNCHANGED <<supported, micOpen, input, isVoiceEnabled, isListening,
                 transcript, capturing>>

\* handleSend after its await, the call succeeded
SendOk(i, reply) ==
  /\ i \in Pending
  /\ IsChat(reqs[i])
  /\ messages' = Append(messages, Message(reply, "bot", i))
  /\ IF reqs[i].voice THEN Speak(reply) ELSE UNCHANGED spoken
  /\ reqs' = [reqs EXCEPT ![i].status = "ok"]
  /\ last' = Event("sendOk", i)
  /\ UNCHANGED <<supported, micOpen, input, isVoiceEnabled, isListening, transcript,
                 capturing>>

\* A catch block that takes the last message back out of the transcript.
SendFailRollback(i) ==
  /\ i \in Pending
  /\ IsChat(reqs[i])
  /\ messages' = SubSeq(messages, 1, Len(messages) - 1)
  /\ reqs' = [reqs EXCEPT ![i].status = "failed"]
  /\ last' = Event("sendFail", i)
  /\ UNCHANGED <<supported, micOpen, input, isVoiceEnabled, isListening,
                 transcript, capturing, spoken>>

\* handleSend after its await, the call failed
SendFail(i) ==
  /\ i \in Pending
  /\ IsChat(reqs[i])
  /\ reqs' = [reqs EXCEPT ![i].status = "failed"]
  /\ last' = Event("sendFail", i)
  /\ UNCHANGED <<supported, micOpen, input, messages, isVoiceEnabled, isListening,
                 transcript, capturing, spoken>>

\* A continuation that appends the greeting: setMessages(prev => [...prev,
\* botMessage])
StartOkAppend(i, reply) ==
  /\ i \in Pending
  /\ IsStart(reqs[i])
  /\ messages' = Append(messages, Message(reply, "bot", i))
  /\ IF reqs[i].voice THEN Speak(reply) ELSE UNCHANGED spoken
  /\ reqs' = [reqs EXCEPT ![i].status = "ok"]
  /\ last' = Event("startOk", i)
  /\ UNCHANGED <<supported, micOpen, input, isVoiceEnabled, isListening,
                 transcript, capturing>>

\* fetchInitialMessage after its await, the call succeeded
StartOk(i, reply) ==
  /\ i \in Pending
  /\ IsStart(reqs[i])
  /\ messages' = <<Message(reply, "bot", i)>>
  /\ IF reqs[i].voice THEN Speak(reply) ELSE UNCHANGED spoken
  /\ reqs' = [reqs EXCEPT ![i].status = "ok"]
  /\ last' = Event("startOk", i)
  /\ UNCHANGED <<supported, micOpen, input, isVoiceEnabled, isListening, transcript,
                 capturing>>

\* A catch block that calls fetchInitialMessage again.
StartFailRetry(i) ==
  /\ i \in Pending
  /\ IsStart(reqs[i])
  /\ Len(reqs) < MaxReq
  /\ reqs' = Append([reqs EXCEPT ![i].status = "failed"],
                    Request(reqs[i].by, reqs[i].voice, <<>>))
  /\ last' = Event("startFail", i)
  /\ UNCHANGED <<supported, micOpen, input, messages, isVoiceEnabled,
                 isListening, transcript, capturing, spoken>>

\* fetchInitialMessage after its await, the call failed
StartFail(i) ==
  /\ i \in Pending
  /\ IsStart(reqs[i])
  /\ reqs' = [reqs EXCEPT ![i].status = "failed"]
  /\ last' = Event("startFail", i)
  /\ UNCHANGED <<supported, micOpen, input, messages, isVoiceEnabled, isListening,
                 transcript, capturing, spoken>>

\* A Refresh that also stops the capture.
HandleRefreshStops ==
  /\ supported
  /\ Len(reqs) < MaxReq
  /\ messages' = <<>>
  /\ transcript' = <<>>
  /\ FetchInitialMessage("handleRefresh", isVoiceEnabled)
  /\ isListening' = FALSE
  /\ capturing' = FALSE
  /\ micOpen' = IF isListening THEN micOpen - 1 ELSE micOpen
  /\ last' = Event("handleRefresh", Len(reqs) + 1)
  /\ UNCHANGED <<supported, input, isVoiceEnabled, spoken>>

\* onClick of the Refresh button
HandleRefresh ==
  /\ supported
  /\ Len(reqs) < MaxReq
  /\ messages' = <<>>
  /\ transcript' = <<>>
  /\ FetchInitialMessage("handleRefresh", isVoiceEnabled)
  /\ last' = Event("handleRefresh", Len(reqs) + 1)
  /\ UNCHANGED <<supported, micOpen, input, isVoiceEnabled, isListening, capturing,
                 spoken>>

\* A startListening that does not set isListening.
StartListeningNoFlag ==
  /\ transcript' = <<>>
  /\ isListening' = isListening
  /\ capturing' = TRUE
  /\ micOpen' = micOpen + 1
  /\ UNCHANGED <<input, messages, reqs>>

\* startListening
StartListening ==
  /\ transcript' = <<>>
  /\ isListening' = TRUE
  /\ capturing' = TRUE
  /\ micOpen' = micOpen + 1
  /\ UNCHANGED <<input, messages, reqs>>

\* stopListening
StopListening ==
  /\ isListening' = FALSE
  /\ capturing' = FALSE
  /\ micOpen' = micOpen - 1

\* The button rendered and wired whether or not the browser supports speech
\* recognition.
HandleVoiceInputUnguarded ==
  /\ IF isListening
     THEN /\ StopListening
          /\ HandleSendBody(input, transcript)
          /\ last' = Event("handleVoiceInput",
                           IF Accepts(input) THEN Len(reqs) + 1 ELSE 0)
          /\ UNCHANGED transcript
     ELSE /\ StartListening
          /\ last' = Event("handleVoiceInput", 0)
  /\ UNCHANGED <<supported, isVoiceEnabled, spoken>>

\* onClick of the Start/Stop Listening button
HandleVoiceInput ==
  /\ supported
  /\ IF isListening
     THEN /\ StopListening
          /\ HandleSendBody(input, transcript)
          /\ last' = Event("handleVoiceInput",
                           IF Accepts(input) THEN Len(reqs) + 1 ELSE 0)
          /\ UNCHANGED transcript
     ELSE /\ StartListening
          /\ last' = Event("handleVoiceInput", 0)
  /\ UNCHANGED <<supported, isVoiceEnabled, spoken>>

\* onClick of the Enable/Disable Voice button, and the effect that the
\* change of isVoiceEnabled re-runs
ToggleVoice ==
  /\ supported
  /\ Len(reqs) < MaxReq
  /\ isVoiceEnabled' = ~isVoiceEnabled
  /\ FetchInitialMessage("useEffect", ~isVoiceEnabled)
  /\ last' = Event("toggleVoice", Len(reqs) + 1)
  /\ UNCHANGED <<supported, micOpen, input, messages, isListening, transcript,
                 capturing, spoken>>

\* The recogniser delivers a result: the transcript grows by one character.
Recognize(c) ==
  /\ capturing
  /\ Len(transcript) < MaxHeard
  /\ transcript' = Append(transcript, c)
  /\ last' = Event("onresult", 0)
  /\ UNCHANGED <<supported, micOpen, input, messages, isVoiceEnabled, isListening,
                 capturing, reqs, spoken>>

\* The recogniser ends the capture on its own (error, silence).
RecognitionEnds ==
  /\ capturing
  /\ capturing' = FALSE
  /\ last' = Event("onend", 0)
  /\ UNCHANGED <<supported, micOpen, input, messages, isVoiceEnabled, isListening,
                 transcript, reqs, spoken>>

Next ==
  \/ \E t \in TypedTexts : TypeInput(t)
  \/ HandleSend
  \/ \E i \in 1..MaxReq, reply \in Replies : SendOk(i, reply)
  \/ \E i \in 1..MaxReq : SendFail(i)
  \/ \E i \in 1..MaxReq, reply \in Replies : StartOk(i, reply)
  \/ \E i \in 1..MaxReq : StartFail(i)
  \/ HandleRefresh
  \/ HandleVoiceInput
  \/ ToggleVoice
  \/ Recognize(Heard)
  \/ RecognitionEnds

Spec == Init /\ [][Next]_vars

TypeOK ==
  /\ supported \in BOOLEAN
  /\ Len(transcript) <= MaxHeard
  /\ Len(reqs) <= MaxReq

\* ---------------------------------------------------------------- claims
\* A text that is empty or holds whitespace only.
Blank(s) == \A k \in 1..Len(s) : s[k] \in Whitespace

Resolved(i) == reqs[i].status # "pending"

\* The step runs handleSend: the form was submitted, or the Stop Listening
\* button was pressed.
RunsHandleSend ==
  \/ last'.op = "handleSend"
  \/ last'.op = "handleVoiceInput" /\ isListening

\* The step is the Stop Listening press.
StopsCapture == last'.op = "handleVoiceInput" /\ isListening

\* The step applies a successful response of the dialogue service.
AppliesReply == last'.op \in {"sendOk", "startOk"}

\* The mount's start_chat is the only one: no Refresh, no voice toggle.
OneSession == \A i \in 2..Len(reqs) : IsChat(reqs[i])

AllSucceeded == \A i \in 1..Len(reqs) : reqs[i].status = "ok"

\* The greeting followed by n (user, bot) pairs.
Alternating(m, n) ==
  /\ Len(m) = 2 * n + 1
  /\ \A k \in 1..Len(m) :
       m[k].sender = (IF k % 2 = 1 THEN "bot" ELSE "user")

\* C1: when the session start and every turn have succeeded and nothing is
\* outstanding, the transcript after N accepted submissions is the greeting
\* followed by N (user message, bot reply) pairs in strict alternation.
CexC1 ==
  (OneSession /\ AllSucceeded) => Alternating(messages, Len(reqs) - 1)

\* C2: a submission (typed or by stopping the capture) starts its sendTurn
\* only when no other dialogue request is outstanding, so the request it
\* issues is the only one in flight.
CexC2 ==
  (last.op \in {"handleSend", "handleVoiceInput"} /\ last.req # 0)
    => Pending = {last.req}

\* C3: a submission whose input is empty or whitespace only appends no
\* message to the transcript and issues no request.
ThmC3 ==
  [][(RunsHandleSend /\ Blank(input))
       => (messages' = messages /\ reqs' = reqs)]_vars

\* C3: the form has just been submitted with a whitespace-only input.
WitC3 == last.op = "handleSend" /\ input # <<>> /\ Blank(input)

\* The form is there to type into and a non-blank input is taken by
\* handleSend as long as the run may issue another request.
AcceptsSubmission ==
  /\ ENABLED (\E t \in TypedTexts : TypeInput(t))
  /\ (~Blank(input) /\ Len(reqs) < MaxReq) => ENABLED (HandleSend /\ reqs' # reqs)

\* C4: when a sendTurn fails the transcript is left as it was, so the user
\* message of the turn stays where it is, no bot message of that turn is in
\* the transcript, and the controller accepts a new submission.
ThmC4 ==
  [][last'.op = "sendFail"
       => /\ messages' = messages
          /\ \A k \in 1..Len(messages') : messages'[k].req = last'.req
                                            => messages'[k].sender = "user"
          /\ AcceptsSubmission']_vars

\* C4: a sendTurn has just failed and the user message of its turn is in the
\* transcript.
WitC4 ==
  /\ last.op = "sendFail"
  /\ \E k \in 1..Len(messages) :
       messages[k].req = last.req /\ messages[k].sender = "user"

\* C5: right after a Refresh the transcript is empty, and once the
\* startSession of that Refresh has succeeded and every earlier request is
\* resolved (nothing else having been submitted since), the transcript is
\* exactly one message, a greeting.
CexC5 ==
  /\ last.op = "handleRefresh" => messages = <<>>
  /\ \A r \in 1..Len(reqs) :
       ( /\ reqs[r].by = "handleRefresh"
         /\ reqs[r].status = "ok"
         /\ r = Len(reqs)
         /\ \A i \in 1..(r - 1) : Resolved(i) )
       => ( /\ Len(messages) = 1
            /\ messages[1].sender = "bot"
            /\ IsStart(reqs[messages[1].req]) )

\* C6: a reply (greeting or turn reply) that is received while voice output
\* is disabled is not spoken.
CexC6 ==
  [][(AppliesReply /\ ~isVoiceEnabled) => spoken' = spoken]_vars

\* C7: a reply that is received while voice output is enabled is spoken
\* exactly once, with the text of that reply.
CexC7 ==
  [][(AppliesReply /\ isVoiceEnabled)
       => spoken' = Append(spoken, messages'[Len(messages')].text)]_vars

\* C8: the voice-output toggle changes no message of the transcript and
\* starts, cancels or alters no dialogue request.
CexC8 ==
  [][last'.op = "toggleVoice" => (messages' = messages /\ reqs' = reqs)]_vars

\* C9: stopping the capture with a non-blank transcript T appends the user
\* message T and sends T, whatever the input field holds.
CexC9 ==
  [][(StopsCapture /\ ~Blank(transcript))
       => /\ messages' = Append(messages,
                                Message(transcript, "user", Len(reqs) + 1))
          /\ Len(reqs') = Len(reqs) + 1
          /\ reqs'[Len(reqs')].message = transcript]_vars

\* C10: stopping the capture with an empty transcript appends no user
\* message and issues no sendTurn, whatever the input field holds.
CexC10 ==
  [][(StopsCapture /\ transcript = <<>>)
       => (messages' = messages /\ reqs' = reqs)]_vars

\* s is an initial segment of t.
IsPrefix(s, t) == Len(s) <= Len(t) /\ SubSeq(t, 1, Len(s)) = s

\* C11: in every step other than a Refresh the transcript before the step
\* is a prefix of the transcript after it.
CexC11 ==
  [][last'.op # "handleRefresh" => IsPrefix(messages, messages')]_vars

\* C12: when the bot reply of a turn is appended, the user message of that
\* turn is already in the transcript.
CexC12 ==
  [][last'.op = "sendOk"
       => \E k \in 1..Len(messages) :
            messages[k].sender = "user" /\ messages[k].req = last'.req]_vars

\* What a failed startSession leaves behind: no message appended, no request
\* issued or touched but the failed one.
StartFailEffect ==
  /\ messages' = messages
  /\ Len(reqs') = Len(reqs)
  /\ \A i \in 1..Len(reqs) : i # last'.req => reqs'[i] = reqs[i]

CexC15 == isListening => capturing

\* C16: the calls of startListening and stopListening alternate, beginning
\* with startListening, and startListening is never called while
\* isListening is true: the calls are in balance exactly when the
\* controller is not listening.
ThmC16 ==
  /\ micOpen \in {0, 1}
  /\ isListening <=> micOpen = 1

\* C16: the capture has been started, stopped and started again.
WitC16 ==
  /\ last.op = "handleVoiceInput"
  /\ isListening
  /\ micOpen = 1
  /\ input = <<Heard>>

\* C17: right after an accepted submission, typed or by stopping the
\* capture, the input is empty and the text posted is the text of the user
\* message appended in that step.
ThmC17 ==
  [][(RunsHandleSend /\ reqs' # reqs)
       => /\ input' = <<>>
          /\ Len(messages') = Len(messages) + 1
          /\ IsPrefix(messages, messages')
          /\ messages'[Len(messages')].sender = "user"
          /\ Len(reqs') = Len(reqs) + 1
          /\ reqs'[Len(reqs')].message = messages'[Len(messages')].text]_vars

\* C17: a submission made by stopping the capture has just been accepted.
WitC17 ==
  /\ last.op = "handleVoiceInput"
  /\ last.req # 0
  /\ messages # <<>>
  /\ messages[Len(messages)].req = last.req

\* The bot message a successful response has just appended.
Newest(m) == m[Len(m)]

\* C18: a request carries the isVoiceEnabled of the moment it is issued;
\* its reply is spoken, once, exactly when the request succeeds and that
\* value is true, and nothing else speaks.
ThmC18 ==
  [][/\ Len(reqs') > Len(reqs)
          => reqs'[Len(reqs')].voice = isVoiceEnabled'
     /\ \A i \in 1..Len(reqs) : reqs'[i].voice = reqs[i].voice
     /\ IF AppliesReply /\ reqs[last'.req].voice
        THEN spoken' = Append(spoken, Newest(messages').text)
        ELSE spoken' = spoken]_vars

\* C18: a reply has just been spoken although voice output was disabled
\* while its request was outstanding.
WitC18 ==
  /\ last.op \in {"sendOk", "startOk"}
  /\ reqs[last.req].voice
  /\ ~isVoiceEnabled
  /\ spoken # <<>>

\* C19: right after a successful startSession response is applied the
\* transcript is exactly the one greeting of that response.
ThmC19 ==
  [][last'.op = "startOk"
       => /\ Len(messages') = 1
          /\ messages'[1].sender = "bot"
          /\ messages'[1].req = last'.req
          /\ messages'[1].text \in Replies]_vars

\* C19: the mount's greeting has just been applied over a transcript that
\* held the user message of a turn submitted before it arrived.
WitC19 ==
  /\ last.op = "startOk"
  /\ last.req = 1
  /\ Len(reqs) >= 2
  /\ \A i \in 2..Len(reqs) : IsChat(reqs[i])
  /\ Len(messages) = 1

\* C20: a Refresh leaves isListening, isVoiceEnabled, the input and the
\* running capture as they are and empties the transcript of the
\* recogniser, which goes on delivering results.
ThmC20 ==
  [][last'.op = "handleRefresh"
       => /\ isListening' = isListening
          /\ isVoiceEnabled' = isVoiceEnabled
          /\ input' = input
          /\ capturing' = capturing
          /\ micOpen' = micOpen
          /\ transcript' = <<>>
          /\ capturing => (ENABLED Recognize(Heard))']_vars

\* C20: Refresh has just been pressed during a capture, with a text in the
\* input field.
WitC20 ==
  /\ last.op = "handleRefresh"
  /\ isListening
  /\ capturing
  /\ input # <<>>

====
